---- MODULE Spec2Model ----
(***************************************************************************)
(* Multisweeper: the grid engine (createEmptyGrid, placeMines,             *)
(* countAdjacentMines, revealCellsDFS in the backend and in the client     *)
(* library), the two service endpoints built on it (/start-game, /reveal)  *)
(* and the client session (handleCellPress, handleCellLongPress,           *)
(* handleReset, checkWin).                                                 *)
(*                                                                         *)
(* JavaScript arrays are functions on 0..n-1, so grid[r][c] reads as in    *)
(* the source; a cell is a record with the four fields of the source.      *)
(***************************************************************************)
EXTENDS Integers, Sequences, FiniteSets, TLC

(* ------------------------------ bounds --------------------------------- *)

\* A board has at most MaxCells cells (rows * cols <= MaxCells).
MaxCells == 6

\* The engine is driven through at most MaxReveals reveal calls per board.
MaxReveals == 2

\* A caller of the service makes at most MaxMoves moves per game: the
\* /start-game request, then /reveal requests and flag toggles.
MaxMoves == 3

\* A game is asked for at most MaxMines mines.
MaxMines == 2

\* At most MaxFlags cells carry a flag at a time.
MaxFlags == 1

\* At most MaxInFlight requests are awaited at a time when a cell is
\* pressed, before the mines are placed, during a request.
MaxInFlight == 2

\* The client has at most MaxPending requests in flight.
MaxPending == 1

\* A run of the session with presses during a request has at most MaxEvents
\* events of the user (presses, long-presses, buttons, settings).
MaxEvents == 7

(* ------------------------------ arrays --------------------------------- *)

\* a.length of a JavaScript array
length(a) == Cardinality(DOMAIN a)

\* Faulty variant: only the four orthogonal offsets, the diagonals forgotten.
directionsOrthogonal ==
  << <<-1, 0>>, <<0, -1>>, <<0, 1>>, <<1, 0>> >>

\* The eight neighbour offsets, in the order every variant lists them.
directions ==
  << <<-1, -1>>, <<-1, 0>>, <<-1, 1>>,
     <<0, -1>>,             <<0, 1>>,
     <<1, -1>>,  <<1, 0>>,  <<1, 1>> >>

\* The nine offsets of the client placeMines: the clicked cell and its neighbours.
forbiddenDirections ==
  << <<-1, -1>>, <<-1, 0>>, <<-1, 1>>,
     <<0, -1>>,  <<0, 0>>,  <<0, 1>>,
     <<1, -1>>,  <<1, 0>>,  <<1, 1>> >>

(* --------------------------- createEmptyGrid --------------------------- *)

emptyCell ==
  [hasMine |-> FALSE, revealed |-> FALSE, flagged |-> FALSE, adjacentMines |-> 0]

createEmptyGrid(rows, cols) ==
  [r \in 0..(rows - 1) |-> [c \in 0..(cols - 1) |-> emptyCell]]

(* ------------------------ placeMines (backend) ------------------------- *)

\* Faulty variant: || for &&, the whole row and column of the click are left out.
keepsPositionOffCross(r, c, safeRow, safeCol) == ~(r = safeRow) /\ ~(c = safeCol)

\* !(r === safeRow && c === safeCol)
keepsPosition(r, c, safeRow, safeCol) == ~(r = safeRow /\ c = safeCol)

\* The nested loops that build `positions`: row-major, the safe cell left out.
RECURSIVE buildPositions(_, _, _, _, _, _)
buildPositions(rows, cols, safeRow, safeCol, r, c) ==
  IF r >= rows THEN <<>>
  ELSE IF c >= cols THEN buildPositions(rows, cols, safeRow, safeCol, r + 1, 0)
  ELSE IF keepsPosition(r, c, safeRow, safeCol)
       THEN << <<r, c>> >> \o buildPositions(rows, cols, safeRow, safeCol, r, c + 1)
       ELSE buildPositions(rows, cols, safeRow, safeCol, r, c + 1)

\* [positions[i], positions[j]] = [positions[j], positions[i]] (0-based i, j)
swap(positions, i, j) ==
  [positions EXCEPT ![i + 1] = positions[j + 1], ![j + 1] = positions[i + 1]]

\* The Fisher-Yates loop, i from positions.length - 1 down to 1; rnd[i] is the
\* value Math.floor(Math.random() * (i + 1)) takes in iteration i.
RECURSIVE shuffle(_, _, _)
shuffle(positions, i, rnd) ==
  IF i > 0 THEN shuffle(swap(positions, i, rnd[i]), i - 1, rnd)
  ELSE positions

\* positions.slice(0, mineCount), mineCount >= 0
slice(positions, mineCount) ==
  SubSeq(positions, 1, IF mineCount < Len(positions) THEN mineCount ELSE Len(positions))

placeMines(g, mineCount, safeRow, safeCol, rnd) ==
  LET rows == length(g)
      cols == length(g[0])
      positions == buildPositions(rows, cols, safeRow, safeCol, 0, 0)
      shuffled == shuffle(positions, Len(positions) - 1, rnd)
      selected == slice(shuffled, mineCount)
      chosen == {selected[k] : k \in 1..Len(selected)}
  IN  [r \in DOMAIN g |-> [c \in DOMAIN g[r] |->
         IF <<r, c>> \in chosen THEN [g[r][c] EXCEPT !.hasMine = TRUE]
         ELSE g[r][c]]]

\* Every sequence of draws the shuffle of n positions can make: rnd[i] in 0..i.
RECURSIVE Draws(_)
Draws(n) ==
  IF n <= 1 THEN {<<>>}
  ELSE {Append(d, j) : d \in Draws(n - 1), j \in 0..(n - 1)}

(* ------------------------- placeMines (client) ------------------------- *)

\* The forbidden set: the clicked cell and its neighbours, clipped at the edges.
forbidden(g, excludeRow, excludeCol) ==
  LET numRows == length(g)
      numCols == length(g[0])
  IN  {<<excludeRow + forbiddenDirections[k][1], excludeCol + forbiddenDirections[k][2]>> :
          k \in {k \in 1..Len(forbiddenDirections) :
                   /\ excludeRow + forbiddenDirections[k][1] >= 0
                   /\ excludeRow + forbiddenDirections[k][1] < numRows
                   /\ excludeCol + forbiddenDirections[k][2] >= 0
                   /\ excludeCol + forbiddenDirections[k][2] < numCols}}

\* The test of one iteration of the rejection loop on the drawn (row, col).
acceptsDraw(g, excludeRow, excludeCol, row, col) ==
  /\ <<row, col>> \notin forbidden(g, excludeRow, excludeCol)
  /\ ~g[row][col].hasMine

(* -------------------------- countAdjacentMines ------------------------- *)

\* The inner loop over directions: count++ for every in-bounds mined neighbour.
RECURSIVE countFrom(_, _, _, _)
countFrom(g, r, c, k) ==
  IF k > Len(directions) THEN 0
  ELSE LET nr == r + directions[k][1]
           nc == c + directions[k][2]
       IN  (IF /\ nr >= 0 /\ nr < length(g)
               /\ nc >= 0 /\ nc < length(g[0])
               /\ g[nr][nc].hasMine
            THEN 1 ELSE 0) + countFrom(g, r, c, k + 1)

\* Faulty variant: count is not reset, it starts from the cell's stored value.
countAdjacentMinesAccumulating(g) ==
  [r \in 0..(length(g) - 1) |-> [c \in 0..(length(g[0]) - 1) |->
     IF g[r][c].hasMine THEN g[r][c]
     ELSE [g[r][c] EXCEPT !.adjacentMines = @ + countFrom(g, r, c, 1)]]]

\* Backend: mined cells are skipped (continue), their adjacentMines is left alone.
countAdjacentMines(g) ==
  [r \in 0..(length(g) - 1) |-> [c \in 0..(length(g[0]) - 1) |->
     IF g[r][c].hasMine THEN g[r][c]
     ELSE [g[r][c] EXCEPT !.adjacentMines = countFrom(g, r, c, 1)]]]

\* Client: mined cells get the sentinel -1.
countAdjacentMinesClient(g) ==
  [row \in 0..(length(g) - 1) |-> [col \in 0..(length(g[0]) - 1) |->
     IF g[row][col].hasMine THEN [g[row][col] EXCEPT !.adjacentMines = -1]
     ELSE [g[row][col] EXCEPT !.adjacentMines = countFrom(g, row, col, 1)]]]

(* ---------------------------- revealCellsDFS --------------------------- *)

\* Faulty variant: only the neighbours below and to the right are pushed.
pushesForward(r, c) ==
  << <<r, c + 1>>, <<r + 1, c>>, <<r + 1, c + 1>> >>

\* Faulty variant: the cell itself is pushed again along with its neighbours.
pushesWithSelf(r, c) ==
  [k \in 1..(Len(directions) + 1) |->
     IF k > Len(directions) THEN <<r, c>>
     ELSE <<r + directions[k][1], c + directions[k][2]>>]

\* The eight coordinates pushed for (r, c), in push order (no bounds check).
pushes(r, c) ==
  [k \in 1..Len(directions) |-> <<r + directions[k][1], c + directions[k][2]>>]

\* Faulty variant: the hasMine test is dropped, so a mined cell with count 0 expands.
expandsThroughMines(cell) == cell.adjacentMines = 0

\* Faulty variant: neighbours are pushed whatever the adjacency count is.
expandsAnyCount(cell) == ~cell.hasMine

\* grid[r][c].adjacentMines === 0 && !grid[r][c].hasMine
expands(cell) == cell.adjacentMines = 0 /\ ~cell.hasMine

\* Faulty variant: a flagged cell is not entered by the flood.
isSafeUnflagged(g, visited, r, c) ==
  /\ r >= 0 /\ r < length(g)
  /\ c >= 0 /\ c < length(g[0])
  /\ ~g[r][c].revealed
  /\ ~g[r][c].flagged
  /\ <<r, c>> \notin visited

\* Backend isSafe: in bounds, not revealed, not in the visited Set.
isSafe(g, visited, r, c) ==
  /\ r >= 0 /\ r < length(g)
  /\ c >= 0 /\ c < length(g[0])
  /\ ~g[r][c].revealed
  /\ <<r, c>> \notin visited

\* Faulty variant: the loop enters revealed cells too and flips the revealed
\* field of each cell it visits.
RECURSIVE dfsLoopToggling(_, _, _)
dfsLoopToggling(g, stack, visited) ==
  IF Len(stack) = 0 THEN g
  ELSE LET r == stack[Len(stack)][1]
           c == stack[Len(stack)][2]
           rest == SubSeq(stack, 1, Len(stack) - 1)
       IN  IF ~(/\ r >= 0 /\ r < length(g) /\ c >= 0 /\ c < length(g[0])
                /\ <<r, c>> \notin visited)
           THEN dfsLoopToggling(g, rest, visited)
           ELSE LET marked == [g EXCEPT ![r][c].revealed = ~@]
                IN  dfsLoopToggling(marked,
                            IF expands(marked[r][c]) THEN rest \o pushes(r, c) ELSE rest,
                            visited \cup {<<r, c>>})

\* Backend while loop: stack is a sequence, popped at its end.
RECURSIVE dfsLoop(_, _, _)
dfsLoop(g, stack, visited) ==
  IF Len(stack) = 0 THEN g
  ELSE LET r == stack[Len(stack)][1]
           c == stack[Len(stack)][2]
           rest == SubSeq(stack, 1, Len(stack) - 1)
       IN  IF ~isSafe(g, visited, r, c) THEN dfsLoop(g, rest, visited)
           ELSE LET marked == [g EXCEPT ![r][c].revealed = TRUE]
                IN  dfsLoop(marked,
                            IF expands(marked[r][c]) THEN rest \o pushes(r, c) ELSE rest,
                            visited \cup {<<r, c>>})

revealCellsDFS(g, row, col) == dfsLoop(g, << <<row, col>> >>, {})

\* Client skip test: out of bounds, visited[r][c], or already revealed.
skipsClient(g, visited, r, c) ==
  \/ r < 0 \/ r >= length(g)
  \/ c < 0 \/ c >= length(g[0])
  \/ visited[r][c]
  \/ g[r][c].revealed

\* Faulty variant: the loop also clears the flag of every cell it reveals.
RECURSIVE dfsLoopClientUnflagging(_, _, _)
dfsLoopClientUnflagging(g, stack, visited) ==
  IF ~(Len(stack) > 0) THEN g
  ELSE LET r == stack[Len(stack)][1]
           c == stack[Len(stack)][2]
           rest == SubSeq(stack, 1, Len(stack) - 1)
       IN  IF skipsClient(g, visited, r, c) THEN dfsLoopClientUnflagging(g, rest, visited)
           ELSE LET marked == [g EXCEPT ![r][c].revealed = TRUE, ![r][c].flagged = FALSE]
                IN  dfsLoopClientUnflagging(marked,
                                  IF marked[r][c].adjacentMines = 0 /\ ~marked[r][c].hasMine
                                  THEN rest \o pushes(r, c) ELSE rest,
                                  [visited EXCEPT ![r][c] = TRUE])

\* Client while loop: visited is a numRows x numCols array of booleans.
RECURSIVE dfsLoopClient(_, _, _)
dfsLoopClient(g, stack, visited) ==
  IF ~(Len(stack) > 0) THEN g
  ELSE LET r == stack[Len(stack)][1]
           c == stack[Len(stack)][2]
           rest == SubSeq(stack, 1, Len(stack) - 1)
       IN  IF skipsClient(g, visited, r, c) THEN dfsLoopClient(g, rest, visited)
           ELSE LET marked == [g EXCEPT ![r][c].revealed = TRUE]
                IN  dfsLoopClient(marked,
                                  IF marked[r][c].adjacentMines = 0 /\ ~marked[r][c].hasMine
                                  THEN rest \o pushes(r, c) ELSE rest,
                                  [visited EXCEPT ![r][c] = TRUE])

\* Faulty variant: the seed alone is revealed, nothing is flooded.
revealSeedOnly(g, row, col) == [g EXCEPT ![row][col].revealed = TRUE]

revealCellsDFSClient(g, row, col) ==
  dfsLoopClient(g, << <<row, col>> >>,
                [r \in 0..(length(g) - 1) |-> [c \in 0..(length(g[0]) - 1) |-> FALSE]])

(* -------------------------------- checkWin ----------------------------- *)

\* Faulty variant: a hidden mined cell also blocks the win.
blocksWinAnyHidden(cell) == ~cell.revealed

\* !cell.hasMine && !cell.revealed
blocksWin(cell) == ~cell.hasMine /\ ~cell.revealed

\* The nested loops with their early return.
RECURSIVE checkWinFrom(_, _, _)
checkWinFrom(g, row, col) ==
  IF ~(row < length(g)) THEN TRUE
  ELSE IF ~(col < length(g[0])) THEN checkWinFrom(g, row + 1, 0)
  ELSE IF blocksWin(g[row][col]) THEN FALSE
  ELSE checkWinFrom(g, row, col + 1)

checkWin(g) == checkWinFrom(g, 0, 0)

(* ------------------------------ /start-game ---------------------------- *)

\* Faulty variant: the flood runs before the counts are computed.
startGameRevealFirst(body, rnd) ==
  countAdjacentMines(
    revealCellsDFS(
      placeMines(createEmptyGrid(body.rows, body.cols), body.mines,
                 body.firstClickRow, body.firstClickCol, rnd),
      body.firstClickRow, body.firstClickCol))

\* The grid the handler answers with: createEmptyGrid, placeMines,
\* countAdjacentMines and revealCellsDFS applied to one fresh object.
startGame(body, rnd) ==
  revealCellsDFS(
    countAdjacentMines(
      placeMines(createEmptyGrid(body.rows, body.cols), body.mines,
                 body.firstClickRow, body.firstClickCol, rnd)),
    body.firstClickRow, body.firstClickCol)

\* The handler's response: with no row, grid[0].length in placeMines throws
\* a TypeError, no handler catches it and the framework answers 500;
\* otherwise the grid is sent with status 200.
postStartGame(body, rnd) ==
  IF body.rows <= 0
  THEN [status |-> 500, error |-> "TypeError"]
  ELSE [status |-> 200, grid |-> startGame(body, rnd)]

\* The draws the shuffle inside /start-game can make for this body.
startGameDraws(body) ==
  Draws(Len(buildPositions(body.rows, body.cols,
                           body.firstClickRow, body.firstClickCol, 0, 0)))

(* -------------------------------- /reveal ------------------------------ *)
(* Objects matter here: objs is the handler's heap of grid objects, a     *)
(* sequence indexed by reference; body.grid is the reference of the       *)
(* parsed request grid.                                                    *)

\* Faulty variant: a flagged target is not refused.
nothingToUpdateRevealedOnly(cell) == cell.revealed

\* cell.revealed || cell.flagged
nothingToUpdate(cell) == cell.revealed \/ cell.flagged

\* Faulty variant: no copy is made, copiedGrid is the request grid itself.
copiedGridAlias(heap, gridRef) == gridRef

\* grid.map(row => row.map(cell => ({ ...cell }))) allocates a new object.
copiedGridRef(heap, gridRef) == Len(heap) + 1

\* The value of the copy: every row, every cell, every field.
deepCopy(g) ==
  [r \in DOMAIN g |-> [c \in DOMAIN g[r] |->
     [hasMine |-> g[r][c].hasMine, revealed |-> g[r][c].revealed,
      flagged |-> g[r][c].flagged, adjacentMines |-> g[r][c].adjacentMines]]]

\* The handler: the heap it leaves and the response it sends.
postReveal(heap, body) ==
  LET g == heap[body.grid]
  IN  IF length(g) = 0
      THEN [objs |-> heap, res |-> [status |-> 400, error |-> "Invalid grid data"]]
      ELSE IF body.row \notin DOMAIN g \/ body.col \notin DOMAIN g[body.row]
      THEN \* grid[row][col] or cell.revealed throws a TypeError: no handler
           \* catches it and the framework answers 500
           [objs |-> heap, res |-> [status |-> 500, error |-> "TypeError"]]
      ELSE IF nothingToUpdate(g[body.row][body.col])
      THEN [objs |-> heap, res |-> [status |-> 200, grid |-> body.grid]]
      ELSE LET copiedGrid == copiedGridRef(heap, body.grid)
               copied == [k \in (1..Len(heap)) \cup {copiedGrid} |->
                            IF k = copiedGrid THEN deepCopy(g) ELSE heap[k]]
               updated == [copied EXCEPT
                             ![copiedGrid] = revealCellsDFS(@, body.row, body.col)]
           IN  [objs |-> updated, res |-> [status |-> 200, grid |-> copiedGrid]]

(* ------------------------- client: handleCellPress --------------------- *)

\* Faulty variant: the scan visits the four orthogonal neighbours only.
RECURSIVE unrevealedUnflaggedOrthogonal(_, _, _, _)
unrevealedUnflaggedOrthogonal(newGrid, row, col, k) ==
  IF k > Len(directionsOrthogonal) THEN <<>>
  ELSE LET nr == row + directionsOrthogonal[k][1]
           nc == col + directionsOrthogonal[k][2]
       IN  (IF /\ nr >= 0 /\ nr < length(newGrid)
               /\ nc >= 0 /\ nc < length(newGrid[0])
               /\ ~newGrid[nr][nc].revealed /\ ~newGrid[nr][nc].flagged
            THEN << <<nr, nc>> >> ELSE <<>>)
           \o unrevealedUnflaggedOrthogonal(newGrid, row, col, k + 1)

\* The chording scan: the in-bounds neighbours of (row, col) that are hidden
\* and not flagged, in direction order.
RECURSIVE unrevealedUnflaggedFrom(_, _, _, _)
unrevealedUnflaggedFrom(newGrid, row, col, k) ==
  IF k > Len(directions) THEN <<>>
  ELSE LET nr == row + directions[k][1]
           nc == col + directions[k][2]
       IN  (IF /\ nr >= 0 /\ nr < length(newGrid)
               /\ nc >= 0 /\ nc < length(newGrid[0])
               /\ ~newGrid[nr][nc].revealed /\ ~newGrid[nr][nc].flagged
            THEN << <<nr, nc>> >> ELSE <<>>)
           \o unrevealedUnflaggedFrom(newGrid, row, col, k + 1)

\* The chording scan: the number of in-bounds neighbours hidden and flagged.
RECURSIVE flaggedCountFrom(_, _, _, _)
flaggedCountFrom(newGrid, row, col, k) ==
  IF k > Len(directions) THEN 0
  ELSE LET nr == row + directions[k][1]
           nc == col + directions[k][2]
       IN  (IF /\ nr >= 0 /\ nr < length(newGrid)
               /\ nc >= 0 /\ nc < length(newGrid[0])
               /\ ~newGrid[nr][nc].revealed /\ newGrid[nr][nc].flagged
            THEN 1 ELSE 0)
           + flaggedCountFrom(newGrid, row, col, k + 1)

\* The chording reveal loop over unrevealedUnflagged; st carries newGrid,
\* revealedAny and bombRevealed.
RECURSIVE chordLoop(_, _, _)
chordLoop(st, list, k) ==
  IF k > Len(list) THEN st
  ELSE LET nr == list[k][1]
           nc == list[k][2]
           g == st.newGrid
       IN  IF ~g[nr][nc].revealed /\ ~g[nr][nc].flagged
           THEN IF g[nr][nc].hasMine
                THEN chordLoop([newGrid |-> [g EXCEPT ![nr][nc].revealed = TRUE],
                                revealedAny |-> TRUE, bombRevealed |-> TRUE], list, k + 1)
                ELSE IF g[nr][nc].adjacentMines = 0
                THEN chordLoop([newGrid |-> revealCellsDFSClient(g, nr, nc),
                                revealedAny |-> TRUE,
                                bombRevealed |-> st.bombRevealed], list, k + 1)
                ELSE chordLoop([newGrid |-> [g EXCEPT ![nr][nc].revealed = TRUE],
                                revealedAny |-> TRUE,
                                bombRevealed |-> st.bombRevealed], list, k + 1)
           ELSE chordLoop(st, list, k + 1)

\* Faulty variant: the grid-wide reveal of the mines is left out.
revealAllMinesSkipped(newGrid) == newGrid

\* Reveal all bombs: every mined cell becomes revealed.
revealAllMines(newGrid) ==
  [r \in DOMAIN newGrid |-> [c \in DOMAIN newGrid[r] |->
     IF newGrid[r][c].hasMine THEN [newGrid[r][c] EXCEPT !.revealed = TRUE]
     ELSE newGrid[r][c]]]

\* disabled={cell.revealed && cell.adjacentMines === 0} of the Cell component
pressDisabled(cell) == cell.revealed /\ cell.adjacentMines = 0

(* ------------------------ client: handleCellLongPress ------------------ *)

\* Faulty variant: the counter goes down on every toggle, unflagging included.
longPressCountingDown(g, count, row, col) ==
  IF ~g[row][col].revealed
  THEN [grid |-> [g EXCEPT ![row][col].flagged = ~g[row][col].flagged],
        flagCount |-> count - 1]
  ELSE [grid |-> g, flagCount |-> count]

\* The grid and the counter handleCellLongPress sets: on a hidden cell the
\* cell's flagged is negated and prev - 1 or prev + 1 is stored; on a
\* revealed cell nothing is set.
longPress(g, count, row, col) ==
  IF ~g[row][col].revealed
  THEN [grid |-> [g EXCEPT ![row][col].flagged = ~g[row][col].flagged],
        flagCount |-> IF ~g[row][col].flagged THEN count - 1 ELSE count + 1]
  ELSE [grid |-> g, flagCount |-> count]

(* =============================== state ================================= *)
(* Three components are exercised, one per behaviour: the engine's         *)
(* functions on one board (egrid, ecall, ereveals), the service called by  *)
(* an arbitrary caller (cgrid, sbody, objs, sres, smoves), and the client  *)
(* session (the React state of Index and its requests in flight).          *)
(* scenario says which one runs; the variables of the other two keep their *)
(* idle values.                                                            *)
(* events counts the user's events of a bounded run of the session.       *)

VARIABLES
  scenario,
  egrid, ecall, ereveals,
  cgrid, sbody, objs, sres, smoves,
  difficulty, grid, minesPlaced, timerActive, victoryVisible, flagCount, pending,
  effectDifficulty, renderedGrid, settingsVisible,
  events

evars == <<egrid, ecall, ereveals>>
svars == <<cgrid, sbody, objs, sres, smoves>>
cvars == <<difficulty, grid, minesPlaced, timerActive, victoryVisible, flagCount, pending,
           effectDifficulty, renderedGrid, settingsVisible>>
vars == <<scenario, evars, svars, cvars, events>>

IdleEngine == egrid = <<>> /\ ecall = [op |-> "none"] /\ ereveals = 0

IdleService ==
  /\ cgrid = <<>>
  /\ sbody = [ep |-> "none"]
  /\ objs = <<>>
  /\ sres = [status |-> 0]
  /\ smoves = 0

IdleSession ==
  /\ difficulty = [rows |-> 0, cols |-> 0, mines |-> 0]
  /\ grid = <<>>
  /\ minesPlaced = FALSE
  /\ timerActive = FALSE
  /\ victoryVisible = FALSE
  /\ flagCount = 0
  /\ pending = <<>>
  /\ effectDifficulty = [rows |-> 0, cols |-> 0, mines |-> 0]
  /\ renderedGrid = <<>>
  /\ settingsVisible = FALSE
  /\ events = 0

\* Board shapes within the bound.
Shapes == {rc \in (1..MaxCells) \X (1..MaxCells) : rc[1] * rc[2] <= MaxCells}

(* ============================ engine harness =========================== *)
(* The engine's functions applied one after the other to one board, the    *)
(* way /start-game and the client library chain them; ecall records the    *)
(* last call and its arguments.                                            *)

\* The client's rejection loop has left the while (placed >= mineCount).
placementReturned ==
  ecall.op = "placeMinesClient" => ~(ecall.placed < ecall.mineCount)

InitEngine ==
  /\ scenario = "engine"
  /\ \E rc \in Shapes :
        /\ egrid = createEmptyGrid(rc[1], rc[2])
        /\ ecall = [op |-> "createEmptyGrid", rows |-> rc[1], cols |-> rc[2]]
  /\ ereveals = 0
  /\ IdleService
  /\ IdleSession

\* placeMines(grid, mineCount, safeRow, safeCol) of the backend on a fresh board.
EPlaceMines ==
  /\ ecall.op = "createEmptyGrid"
  /\ \E mineCount \in 0..(length(egrid) * length(egrid[0])),
        safeRow \in -1..(length(egrid) - 1),
        safeCol \in 0..(length(egrid[0]) - 1) :
        \E rnd \in Draws(Len(buildPositions(length(egrid), length(egrid[0]),
                                             safeRow, safeCol, 0, 0))) :
          /\ egrid' = placeMines(egrid, mineCount, safeRow, safeCol, rnd)
          /\ ecall' = [op |-> "placeMines", mineCount |-> mineCount,
                       safeRow |-> safeRow, safeCol |-> safeCol]
  /\ UNCHANGED <<scenario, ereveals, svars, cvars, events>>

\* placeMines(grid, mineCount, excludeRow, excludeCol) of the client: entry,
\* up to the first test of the while loop.
EPlaceMinesClientBegin ==
  /\ ecall.op = "createEmptyGrid"
  /\ \E mineCount \in 0..(length(egrid) * length(egrid[0])),
        excludeRow \in -2..(length(egrid) - 1),
        excludeCol \in 0..(length(egrid[0]) - 1) :
        ecall' = [op |-> "placeMinesClient", mineCount |-> mineCount,
                  excludeRow |-> excludeRow, excludeCol |-> excludeCol, placed |-> 0]
  /\ UNCHANGED <<scenario, egrid, ereveals, svars, cvars, events>>

\* One iteration of the client's while (placed < mineCount) loop.
EPlaceMinesClientIter ==
  /\ ecall.op = "placeMinesClient"
  /\ ecall.placed < ecall.mineCount
  /\ \E row \in 0..(length(egrid) - 1), col \in 0..(length(egrid[0]) - 1) :
        IF acceptsDraw(egrid, ecall.excludeRow, ecall.excludeCol, row, col)
        THEN /\ egrid' = [egrid EXCEPT ![row][col].hasMine = TRUE]
             /\ ecall' = [ecall EXCEPT !.placed = @ + 1]
        ELSE UNCHANGED <<egrid, ecall>>
  /\ UNCHANGED <<scenario, ereveals, svars, cvars, events>>

ECountAdjacentMines ==
  /\ placementReturned
  /\ ereveals = 0
  /\ ecall.op # "checkWin"
  /\ egrid' = countAdjacentMines(egrid)
  /\ ecall' = [op |-> "countAdjacentMines"]
  /\ UNCHANGED <<scenario, ereveals, svars, cvars, events>>

ECountAdjacentMinesClient ==
  /\ placementReturned
  /\ ereveals = 0
  /\ ecall.op # "checkWin"
  /\ egrid' = countAdjacentMinesClient(egrid)
  /\ ecall' = [op |-> "countAdjacentMinesClient"]
  /\ UNCHANGED <<scenario, ereveals, svars, cvars, events>>

\* Seeds: every cell, and one coordinate beyond each of the four edges.
Seeds(g) ==
  ((0..(length(g) - 1)) \X (0..(length(g[0]) - 1)))
    \cup {<<-1, 0>>, <<length(g), 0>>, <<0, -1>>, <<0, length(g[0])>>}

ERevealCellsDFS ==
  /\ placementReturned
  /\ ereveals < MaxReveals
  /\ \E seed \in Seeds(egrid) :
        /\ egrid' = revealCellsDFS(egrid, seed[1], seed[2])
        /\ ecall' = [op |-> "revealCellsDFS", row |-> seed[1], col |-> seed[2]]
  /\ ereveals' = ereveals + 1
  /\ UNCHANGED <<scenario, svars, cvars, events>>

ERevealCellsDFSClient ==
  /\ placementReturned
  /\ ereveals < MaxReveals
  /\ \E seed \in Seeds(egrid) :
        /\ egrid' = revealCellsDFSClient(egrid, seed[1], seed[2])
        /\ ecall' = [op |-> "revealCellsDFS", row |-> seed[1], col |-> seed[2]]
  /\ ereveals' = ereveals + 1
  /\ UNCHANGED <<scenario, svars, cvars, events>>

ECheckWin ==
  /\ placementReturned
  /\ ecall.op # "checkWin"
  /\ ecall' = [op |-> "checkWin", result |-> checkWin(egrid)]
  /\ UNCHANGED <<scenario, egrid, ereveals, svars, cvars, events>>

NextEngine ==
  \/ EPlaceMines
  \/ EPlaceMinesClientBegin
  \/ EPlaceMinesClientIter
  \/ ECountAdjacentMines
  \/ ECountAdjacentMinesClient
  \/ ERevealCellsDFS
  \/ ERevealCellsDFSClient
  \/ ECheckWin

SpecEngine == InitEngine /\ [][NextEngine]_vars

(* ============================= flood harness =========================== *)
(* revealCellsDFS one loop iteration at a time: egrid is the grid being     *)
(* marked, ecall holds the variant running, the grid it was entered with    *)
(* (start), its stack and its visited structure, the cells marked so far in *)
(* order (marks) and the number of pops made (pops); ereveals counts the    *)
(* calls started. The backend's visited is a Set (visitedSet), the client's *)
(* a two-dimensional array (visited).                                       *)

\* The board of the shape rc with the cells of M mined and the counts of the
\* backend's countAdjacentMines.
boardWithMines(rc, M) ==
  countAdjacentMines(
    [r \in 0..(rc[1] - 1) |-> [c \in 0..(rc[2] - 1) |->
       [emptyCell EXCEPT !.hasMine = (<<r, c>> \in M)]]])

InitFlood ==
  /\ scenario = "flood"
  /\ \E rc \in Shapes :
       \E M \in SUBSET ((0..(rc[1] - 1)) \X (0..(rc[2] - 1))) :
         /\ Cardinality(M) <= MaxMines
         /\ egrid = boardWithMines(rc, M)
  /\ ecall = [op |-> "none", stack |-> <<>>]
  /\ ereveals = 0
  /\ IdleService
  /\ IdleSession

\* revealCellsDFS(grid, row, col) of the backend is entered: stack = [[row, col]],
\* visited = new Set().
FBegin ==
  /\ Len(ecall.stack) = 0
  /\ ereveals < MaxReveals
  /\ \E seed \in Seeds(egrid) :
       ecall' = [op |-> "revealCellsDFS", row |-> seed[1], col |-> seed[2],
                 start |-> egrid, stack |-> <<seed>>, visitedSet |-> {},
                 marks |-> <<>>, pops |-> 0]
  /\ ereveals' = ereveals + 1
  /\ UNCHANGED <<scenario, egrid, svars, cvars, events>>

\* revealCellsDFS of the client is entered: visited is all false.
FBeginClient ==
  /\ Len(ecall.stack) = 0
  /\ ereveals < MaxReveals
  /\ \E seed \in Seeds(egrid) :
       ecall' = [op |-> "revealCellsDFSClient", row |-> seed[1], col |-> seed[2],
                 start |-> egrid, stack |-> <<seed>>,
                 visited |-> [r \in 0..(length(egrid) - 1) |->
                                [c \in 0..(length(egrid[0]) - 1) |-> FALSE]],
                 marks |-> <<>>, pops |-> 0]
  /\ ereveals' = ereveals + 1
  /\ UNCHANGED <<scenario, egrid, svars, cvars, events>>

\* One iteration of the backend's while (stack.length).
FStep ==
  /\ ecall.op = "revealCellsDFS"
  /\ Len(ecall.stack) > 0
  /\ LET r == ecall.stack[Len(ecall.stack)][1]
         c == ecall.stack[Len(ecall.stack)][2]
         rest == SubSeq(ecall.stack, 1, Len(ecall.stack) - 1)
     IN  IF ~isSafe(egrid, ecall.visitedSet, r, c)
         THEN /\ ecall' = [ecall EXCEPT !.stack = rest, !.pops = @ + 1]
              /\ UNCHANGED egrid
         ELSE /\ egrid' = [egrid EXCEPT ![r][c].revealed = TRUE]
              /\ ecall' = [ecall EXCEPT
                             !.stack = IF expands(egrid[r][c])
                                       THEN rest \o pushes(r, c) ELSE rest,
                             !.visitedSet = @ \cup {<<r, c>>},
                             !.marks = Append(@, <<r, c>>),
                             !.pops = @ + 1]
  /\ UNCHANGED <<scenario, ereveals, svars, cvars, events>>

\* One iteration of the client's while (stack.length > 0).
FStepClient ==
  /\ ecall.op = "revealCellsDFSClient"
  /\ Len(ecall.stack) > 0
  /\ LET r == ecall.stack[Len(ecall.stack)][1]
         c == ecall.stack[Len(ecall.stack)][2]
         rest == SubSeq(ecall.stack, 1, Len(ecall.stack) - 1)
     IN  IF skipsClient(egrid, ecall.visited, r, c)
         THEN /\ ecall' = [ecall EXCEPT !.stack = rest, !.pops = @ + 1]
              /\ UNCHANGED egrid
         ELSE /\ egrid' = [egrid EXCEPT ![r][c].revealed = TRUE]
              /\ ecall' = [ecall EXCEPT
                             !.stack = IF egrid[r][c].adjacentMines = 0 /\ ~egrid[r][c].hasMine
                                       THEN rest \o pushes(r, c) ELSE rest,
                             !.visited = [@ EXCEPT ![r][c] = TRUE],
                             !.marks = Append(@, <<r, c>>),
                             !.pops = @ + 1]
  /\ UNCHANGED <<scenario, ereveals, svars, cvars, events>>

NextFlood ==
  \/ FBegin
  \/ FBeginClient
  \/ FStep
  \/ FStepClient

\* A call that has been entered keeps running: the loop is synchronous code.
SpecFlood ==
  InitFlood /\ [][NextFlood]_vars /\ WF_vars(FStep) /\ WF_vars(FStepClient)

(* ============================ service harness ========================== *)
(* A caller plays one game against the two endpoints: it starts a game,    *)
(* keeps the grid of the last response (cgrid), may flag hidden cells of   *)
(* it, and sends it back to /reveal. sbody is the request body as sent     *)
(* (JSON, the grid by value), objs the handler's heap when it answered     *)
(* (object 1 is the parsed request grid), sres the response.               *)

\* Valid /start-game bodies: a board within the bound, fewer mines than
\* cells, the first click on the board.
StartGameBodies ==
  {[rows |-> rc[1], cols |-> rc[2], mines |-> m,
    firstClickRow |-> fr, firstClickCol |-> fc] :
      rc \in Shapes, m \in 0..MaxMines, fr \in 0..MaxCells, fc \in 0..MaxCells}

ValidStartGameBody(body) ==
  /\ body.mines < body.rows * body.cols
  /\ body.firstClickRow < body.rows
  /\ body.firstClickCol < body.cols

\* The grids /start-game can answer with, for every valid body: startGame
\* under each run of draws its shuffle can make.
startGameAnswers ==
  {[body |-> b, grids |-> {startGame(b, rnd) : rnd \in startGameDraws(b)}] :
     b \in {x \in StartGameBodies : ValidStartGameBody(x)}}

startGameGrids(body) == (CHOOSE a \in startGameAnswers : a.body = body).grids

InitService ==
  /\ scenario = "service"
  /\ IdleEngine
  /\ IdleService
  /\ IdleSession

SStartGame ==
  /\ smoves = 0
  /\ \E body \in {b \in StartGameBodies : ValidStartGameBody(b)} :
       \E answer \in startGameGrids(body) :
         /\ sbody' = [ep |-> "start-game", body |-> body]
         /\ objs' = <<answer>>
         /\ sres' = [status |-> 200, grid |-> 1]
         /\ cgrid' = answer
  /\ smoves' = 1
  /\ UNCHANGED <<scenario, evars, cvars, events>>

SReveal ==
  /\ smoves >= 1
  /\ smoves < MaxMoves
  /\ \E row \in 0..(length(cgrid) - 1), col \in 0..(length(cgrid[0]) - 1) :
       LET out == postReveal(<<cgrid>>, [grid |-> 1, row |-> row, col |-> col])
       IN  /\ sbody' = [ep |-> "reveal", body |-> [grid |-> cgrid, row |-> row, col |-> col]]
           /\ objs' = out.objs
           /\ sres' = out.res
           /\ cgrid' = out.objs[out.res.grid]
  /\ smoves' = smoves + 1
  /\ UNCHANGED <<scenario, evars, cvars, events>>

\* The caller flags or unflags a hidden cell of its grid between requests.
SToggleFlag ==
  /\ smoves >= 1
  /\ smoves < MaxMoves
  /\ \E row \in 0..(length(cgrid) - 1), col \in 0..(length(cgrid[0]) - 1) :
       /\ ~cgrid[row][col].revealed
       /\ cgrid[row][col].flagged
            \/ Cardinality({p \in (DOMAIN cgrid) \X (DOMAIN cgrid[0]) :
                              cgrid[p[1]][p[2]].flagged}) < MaxFlags
       /\ cgrid' = [cgrid EXCEPT ![row][col].flagged = ~@]
  /\ smoves' = smoves + 1
  /\ UNCHANGED <<scenario, evars, sbody, objs, sres, cvars, events>>

NextService ==
  \/ SStartGame
  \/ SReveal
  \/ SToggleFlag

SpecService == InitService /\ [][NextService]_vars

(* ----------------------- requests off the board ------------------------ *)
(* The same caller, also sending requests the service should refuse: a     *)
(* first click or a target one step off the board, a board without rows or *)
(* without columns.                                                        *)

\* /start-game bodies with a first click one step off the board, or with no
\* rows, or with no columns.
OffBoardStartGameBodies ==
  {b \in [rows : 0..MaxCells, cols : 0..MaxCells, mines : 0..MaxMines,
          firstClickRow : -1..MaxCells, firstClickCol : -1..MaxCells] :
     /\ b.rows * b.cols < MaxCells
     /\ b.rows + b.cols >= 1
     /\ b.firstClickRow \in {-1, 0, b.rows}
     /\ b.firstClickCol \in {-1, 0, b.cols}
     /\ b.firstClickRow = 0 \/ b.firstClickCol = 0
     /\ \/ b.rows = 0
        \/ b.cols = 0
        \/ b.firstClickRow \notin 0..(b.rows - 1)
        \/ b.firstClickCol \notin 0..(b.cols - 1)}

SStartGameOffBoard ==
  /\ smoves = 0
  /\ \E body \in OffBoardStartGameBodies :
       \E rnd \in (IF body.rows <= 0 THEN {<<>>} ELSE startGameDraws(body)) :
         LET res == postStartGame(body, rnd)
         IN  /\ sbody' = [ep |-> "start-game", body |-> body]
             /\ objs' = IF res.status = 200 THEN <<res.grid>> ELSE <<>>
             /\ sres' = IF res.status = 200 THEN [status |-> 200, grid |-> 1] ELSE res
             /\ cgrid' = IF res.status = 200 THEN res.grid ELSE cgrid
             \* without a grid the caller can only start again
             /\ smoves' = IF res.status = 200 THEN 1 ELSE 0
  /\ UNCHANGED <<scenario, evars, cvars, events>>

\* /reveal with the caller's grid and a target one step off the board.
SRevealOffBoard ==
  /\ smoves >= 1
  /\ smoves < MaxMoves
  /\ length(cgrid) > 0
  /\ \E row \in -1..length(cgrid), col \in -1..length(cgrid[0]) :
       /\ row \notin DOMAIN cgrid \/ col \notin DOMAIN cgrid[0]
       /\ LET out == postReveal(<<cgrid>>, [grid |-> 1, row |-> row, col |-> col])
          IN  /\ sbody' = [ep |-> "reveal",
                           body |-> [grid |-> cgrid, row |-> row, col |-> col]]
              /\ objs' = out.objs
              /\ sres' = out.res
              /\ cgrid' = IF out.res.status = 200 THEN out.objs[out.res.grid] ELSE cgrid
  /\ smoves' = smoves + 1
  /\ UNCHANGED <<scenario, evars, cvars, events>>

NextRequests ==
  \/ NextService
  \/ SStartGameOffBoard
  \/ SRevealOffBoard

SpecRequests == InitService /\ [][NextRequests]_vars

(* --------------------------- malformed grids --------------------------- *)
(* The same caller, also sending /reveal requests whose grid is not a      *)
(* rows x cols array of cells: an empty grid, a grid whose last row has    *)
(* one cell more than the first, a grid whose target cell is missing from  *)
(* the end of its row. The caller keeps its own grid in these exchanges.   *)

\* g with one more hidden empty cell at the end of its last row
withLongerLastRow(g) ==
  LET last == length(g) - 1
  IN  [g EXCEPT ![last] = [c \in 0..length(g[last]) |->
                             IF c < length(g[last]) THEN g[last][c] ELSE emptyCell]]

\* g without the last cell of its last row
withShorterLastRow(g) ==
  LET last == length(g) - 1
  IN  [g EXCEPT ![last] = [c \in 0..(length(g[last]) - 2) |-> g[last][c]]]

\* The malformed requests made from the caller's grid g.
MalformedRevealBodies(g) ==
  {[grid |-> <<>>, row |-> 0, col |-> 0]}
  \cup
  (IF length(g) >= 2
   THEN {[grid |-> withLongerLastRow(g), row |-> row, col |-> col] :
           row \in DOMAIN g, col \in DOMAIN g[0]}
        \cup
        {[grid |-> withShorterLastRow(g),
          row |-> length(g) - 1, col |-> length(g[0]) - 1]}
   ELSE {})

SRevealMalformed ==
  /\ smoves >= 1
  /\ smoves < MaxMoves
  /\ length(cgrid) > 0
  /\ \E body \in MalformedRevealBodies(cgrid) :
       LET out == postReveal(<<body.grid>>, [body EXCEPT !.grid = 1])
       IN  /\ sbody' = [ep |-> "reveal", body |-> body]
           /\ objs' = out.objs
           /\ sres' = out.res
  /\ smoves' = smoves + 1
  /\ UNCHANGED <<scenario, evars, cgrid, cvars, events>>

NextMalformed ==
  \/ NextService
  \/ SRevealMalformed

SpecMalformed == InitService /\ [][NextMalformed]_vars

(* ============================ client session =========================== *)
(* The state of the Index component: difficulty (the preset in use), grid, *)
(* minesPlaced, timerActive, victoryVisible, flagCount; pending holds the  *)
(* requests handleCellPress is awaiting, each with its body and with the   *)
(* newGrid its closure captured. A handler runs up to its await in one     *)
(* step and resumes in another when the response arrives. The effects      *)
(* keyed on [difficulty] run in a step of their own after the render that  *)
(* changed difficulty (the first render included) is committed;            *)
(* effectDifficulty is the difficulty they last ran with. renderedGrid is  *)
(* the grid the cells were last rendered from: the chord writes into the   *)
(* array of the state and hands the same array to setGrid, so the          *)
(* component renders again only when another state value changed.          *)
(* settingsVisible says the settings Modal is open; an open Modal covers   *)
(* the screen under it.                                                    *)

\* The three presets, easy, medium and hard, scaled to the bound: more rows
\* than columns, at least one mine, fewer mines than cells. A difficulty is
\* named by its preset.
DIFFICULTIES ==
  << [rows |-> 2, cols |-> 1, mines |-> 1],
     [rows |-> 4, cols |-> 1, mines |-> 1],
     [rows |-> 3, cols |-> 2, mines |-> 2] >>

\* The effects keyed on [difficulty] have not run for the difficulty of the
\* last committed render: effectDifficulty is the value they last ran with,
\* no preset before the first run.
EffectsDue == effectDifficulty # difficulty

Init ==
  /\ scenario = "session"
  /\ IdleEngine
  /\ IdleService
  /\ difficulty = DIFFICULTIES[1]
  /\ grid = createEmptyGrid(difficulty.rows, difficulty.cols)
  /\ minesPlaced = FALSE
  /\ timerActive = FALSE
  /\ victoryVisible = FALSE
  /\ flagCount = 0
  /\ effectDifficulty = [rows |-> 0, cols |-> 0, mines |-> 0]
  /\ pending = <<>>
  /\ renderedGrid = grid
  /\ settingsVisible = FALSE
  /\ events = 0

\* A state setter was called with a new value (for the grid: a new array):
\* the component renders again and the cells show the grid of the state.
Rendered == renderedGrid' = grid'

\* The call set no new grid array; setGrid, when called, got the array the
\* state already holds. The component renders again only when timerActive
\* or victoryVisible got a new value.
RenderedIfOutcomeSet ==
  renderedGrid' = IF timerActive' # timerActive \/ victoryVisible' # victoryVisible
                  THEN grid'
                  ELSE renderedGrid

\* A cell of the board can be touched: the victory Modal is not shown and
\* the cell's TouchableOpacity was not disabled when it was last rendered.
canTouch(row, col) ==
  /\ ~victoryVisible
  /\ ~settingsVisible
  /\ ~pressDisabled(renderedGrid[row][col])

\* handleCellPress, chording branch: a revealed numbered cell is pressed.
CellPressChord(row, col) ==
  /\ grid[row][col].revealed /\ grid[row][col].adjacentMines > 0
  /\ LET flaggedCount == flaggedCountFrom(grid, row, col, 1)
         unrevealedUnflagged == unrevealedUnflaggedFrom(grid, row, col, 1)
         st == chordLoop([newGrid |-> grid, revealedAny |-> FALSE,
                          bombRevealed |-> FALSE], unrevealedUnflagged, 1)
         newGrid == IF st.bombRevealed THEN revealAllMines(st.newGrid) ELSE st.newGrid
     IN  IF flaggedCount = grid[row][col].adjacentMines /\ st.revealedAny
         THEN /\ grid' = newGrid
              /\ timerActive' =
                   IF st.bombRevealed \/ checkWin(newGrid) THEN FALSE ELSE timerActive
              /\ victoryVisible' =
                   IF ~st.bombRevealed /\ checkWin(newGrid) THEN TRUE ELSE victoryVisible
         ELSE UNCHANGED <<grid, timerActive, victoryVisible>>
  /\ UNCHANGED <<settingsVisible, difficulty, minesPlaced, flagCount, pending>>
  /\ RenderedIfOutcomeSet

\* handleCellPress on a hidden flagged cell: return.
CellPressFlagged(row, col) ==
  /\ ~(grid[row][col].revealed /\ grid[row][col].adjacentMines > 0)
  /\ ~grid[row][col].revealed /\ grid[row][col].flagged
  /\ UNCHANGED cvars

\* handleCellPress before the mines are placed: up to await fetch(/start-game).
CellPressFirst(row, col) ==
  /\ ~(grid[row][col].revealed /\ grid[row][col].adjacentMines > 0)
  /\ ~(~grid[row][col].revealed /\ grid[row][col].flagged)
  /\ ~minesPlaced
  /\ Len(pending) < MaxPending
  /\ pending' = Append(pending,
       [ep |-> "start-game",
        body |-> [rows |-> difficulty.rows, cols |-> difficulty.cols,
                  mines |-> difficulty.mines,
                  firstClickRow |-> row, firstClickCol |-> col],
        newGrid |-> deepCopy(grid)])
  /\ UNCHANGED <<settingsVisible, difficulty, grid, minesPlaced, timerActive,
                 victoryVisible, flagCount,
                 renderedGrid>>

\* handleCellPress on a hidden mined cell: every mine is revealed, then the
\* win check on newGrid.
CellPressMine(row, col) ==
  /\ ~(~grid[row][col].revealed /\ grid[row][col].flagged)
  /\ minesPlaced
  /\ ~grid[row][col].revealed
  /\ grid[row][col].hasMine
  /\ LET newGrid == revealAllMines(grid)
     IN  /\ grid' = newGrid
         /\ timerActive' = IF checkWin(newGrid) THEN FALSE ELSE timerActive
         /\ victoryVisible' = IF checkWin(newGrid) THEN TRUE ELSE victoryVisible
  /\ UNCHANGED <<settingsVisible, difficulty, minesPlaced, flagCount, pending>>
  /\ Rendered

\* handleCellPress on a hidden non-mined cell with count 0: up to
\* await fetch(/reveal).
CellPressZero(row, col) ==
  /\ ~(~grid[row][col].revealed /\ grid[row][col].flagged)
  /\ minesPlaced
  /\ ~grid[row][col].revealed
  /\ ~grid[row][col].hasMine
  /\ grid[row][col].adjacentMines = 0
  /\ Len(pending) < MaxPending
  /\ pending' = Append(pending,
       [ep |-> "reveal",
        body |-> [grid |-> grid, row |-> row, col |-> col],
        newGrid |-> deepCopy(grid)])
  /\ UNCHANGED <<settingsVisible, difficulty, grid, minesPlaced, timerActive,
                 victoryVisible, flagCount,
                 renderedGrid>>

\* handleCellPress on a hidden non-mined numbered cell: that cell alone is
\* revealed, then the win check on newGrid.
CellPressNumber(row, col) ==
  /\ ~(~grid[row][col].revealed /\ grid[row][col].flagged)
  /\ minesPlaced
  /\ ~grid[row][col].revealed
  /\ ~grid[row][col].hasMine
  /\ grid[row][col].adjacentMines # 0
  /\ LET newGrid == [grid EXCEPT ![row][col].revealed = TRUE]
     IN  /\ grid' = newGrid
         /\ timerActive' = IF checkWin(newGrid) THEN FALSE ELSE timerActive
         /\ victoryVisible' = IF checkWin(newGrid) THEN TRUE ELSE victoryVisible
  /\ UNCHANGED <<settingsVisible, difficulty, minesPlaced, flagCount, pending>>
  /\ Rendered

\* handleCellPress, with the mines placed, on a revealed cell with count 0
\* (a cell shown as it was before a chord revealed it in place): no branch
\* is taken, then the win check on newGrid, which is the grid of the state.
CellPressRevealed(row, col) ==
  /\ grid[row][col].revealed /\ grid[row][col].adjacentMines = 0
  /\ minesPlaced
  /\ timerActive' = IF checkWin(grid) THEN FALSE ELSE timerActive
  /\ victoryVisible' = IF checkWin(grid) THEN TRUE ELSE victoryVisible
  /\ UNCHANGED <<settingsVisible, difficulty, grid, minesPlaced, flagCount, pending>>
  /\ RenderedIfOutcomeSet

handleCellPress(row, col) ==
  \/ CellPressChord(row, col)
  \/ CellPressFlagged(row, col)
  \/ CellPressFirst(row, col)
  \/ CellPressMine(row, col)
  \/ CellPressZero(row, col)
  \/ CellPressNumber(row, col)
  \/ CellPressRevealed(row, col)

\* pending without its i-th request
withoutRequest(i) == SubSeq(pending, 1, i - 1) \o SubSeq(pending, i + 1, Len(pending))

\* handleCellPress resumes after await fetch(/start-game): the response grid
\* is set, minesPlaced and timerActive become true, then the win check on the
\* newGrid captured at the press.
StartGameResponse(i) ==
  /\ pending[i].ep = "start-game"
  /\ grid' \in IF ValidStartGameBody(pending[i].body)
              THEN startGameGrids(pending[i].body)
              ELSE {startGame(pending[i].body, rnd) :
                      rnd \in startGameDraws(pending[i].body)}
  /\ minesPlaced' = TRUE
  /\ timerActive' = IF checkWin(pending[i].newGrid) THEN FALSE ELSE TRUE
  /\ victoryVisible' = IF checkWin(pending[i].newGrid) THEN TRUE ELSE victoryVisible
  /\ pending' = withoutRequest(i)
  /\ UNCHANGED <<settingsVisible, difficulty, flagCount>>
  /\ Rendered

\* handleCellPress resumes after await fetch(/reveal): the response grid is
\* set, then the win check on the newGrid captured at the press.
RevealResponse(i) ==
  /\ pending[i].ep = "reveal"
  /\ LET out == postReveal(<<pending[i].body.grid>>,
                           [grid |-> 1, row |-> pending[i].body.row,
                            col |-> pending[i].body.col])
     IN  /\ out.res.status = 200
         /\ grid' = out.objs[out.res.grid]
  /\ timerActive' = IF checkWin(pending[i].newGrid) THEN FALSE ELSE timerActive
  /\ victoryVisible' = IF checkWin(pending[i].newGrid) THEN TRUE ELSE victoryVisible
  /\ pending' = withoutRequest(i)
  /\ UNCHANGED <<settingsVisible, difficulty, minesPlaced, flagCount>>
  /\ Rendered

\* The fetch rejects (no response): /start-game leaves the handler by the
\* exception; /reveal is caught and the win check on the captured newGrid,
\* whose pressed cell is hidden and not mined, finds no win.
FetchFails(i) ==
  /\ pending[i].ep = "start-game" \/ ~checkWin(pending[i].newGrid)
  /\ pending' = withoutRequest(i)
  /\ UNCHANGED <<settingsVisible, difficulty, grid, minesPlaced, timerActive,
                 victoryVisible, flagCount,
                 renderedGrid>>

handleCellLongPress(row, col) ==
  /\ ~grid[row][col].revealed =>
       /\ grid[row][col].flagged
            \/ Cardinality({p \in (DOMAIN grid) \X (DOMAIN grid[0]) :
                              grid[p[1]][p[2]].flagged}) < MaxFlags
       /\ longPress(grid, flagCount, row, col).flagCount
            \in (difficulty.mines - MaxFlags)..(difficulty.mines + MaxFlags)
  /\ grid' = longPress(grid, flagCount, row, col).grid
  /\ flagCount' = longPress(grid, flagCount, row, col).flagCount
  /\ UNCHANGED <<settingsVisible, difficulty, minesPlaced, timerActive, victoryVisible, pending>>
  /\ renderedGrid' = IF grid[row][col].revealed THEN renderedGrid ELSE grid'

handleReset ==
  /\ ~victoryVisible
  /\ ~settingsVisible
  /\ grid' = createEmptyGrid(difficulty.rows, difficulty.cols)
  /\ minesPlaced' = FALSE
  /\ flagCount' = difficulty.mines
  /\ timerActive' = FALSE
  /\ UNCHANGED <<settingsVisible, difficulty, victoryVisible, pending>>
  /\ Rendered

handleVictoryClose ==
  /\ victoryVisible
  /\ victoryVisible' = FALSE
  /\ UNCHANGED <<settingsVisible, difficulty, grid, minesPlaced, timerActive, flagCount, pending>>
  /\ Rendered

\* handleDifficultySelect, called from an option of the open settings Modal:
\* the difficulty is set, the Modal closed and the timer stopped; the grid,
\* minesPlaced and flagCount are left to the effects. With the victory
\* Modal open as well, either Modal may get the touch.
handleDifficultySelect(value) ==
  /\ settingsVisible
  /\ difficulty' = value
  /\ settingsVisible' = FALSE
  /\ timerActive' = FALSE
  /\ UNCHANGED <<grid, minesPlaced, victoryVisible, flagCount, pending>>
  /\ Rendered

\* The two effects keyed on [difficulty], run after the render that
\* committed a new difficulty, the mount included: the grid of the preset,
\* no mines placed, the counter at the preset's mines.
difficultyEffects ==
  /\ EffectsDue
  /\ grid' = createEmptyGrid(difficulty.rows, difficulty.cols)
  /\ minesPlaced' = FALSE
  /\ flagCount' = difficulty.mines
  /\ effectDifficulty' = difficulty
  /\ UNCHANGED <<settingsVisible, difficulty, timerActive, victoryVisible, pending>>
  /\ Rendered

\* The interval of the timer effect adds to the elapsed time while
\* timerActive holds, and the component renders again. The elapsed time is
\* not part of the state: the step shows when the cells were out of date.
timerTick ==
  /\ timerActive
  /\ renderedGrid # grid
  /\ renderedGrid' = grid
  /\ UNCHANGED <<settingsVisible, difficulty, grid, minesPlaced, timerActive,
                 victoryVisible, flagCount,
                 pending>>

\* The settings button of the screen, under no open Modal, opens the
\* settings Modal.
handleSettingsPress ==
  /\ ~victoryVisible
  /\ ~settingsVisible
  /\ settingsVisible' = TRUE
  /\ UNCHANGED <<difficulty, grid, minesPlaced, timerActive, victoryVisible, flagCount,
                 pending>>
  /\ Rendered

\* The close button of the open settings Modal.
handleSettingsClose ==
  /\ settingsVisible
  /\ settingsVisible' = FALSE
  /\ UNCHANGED <<difficulty, grid, minesPlaced, timerActive, victoryVisible, flagCount,
                 pending>>
  /\ Rendered

\* A press of a cell the user can touch.
PressStep ==
  \E row \in DOMAIN grid, col \in DOMAIN grid[0] :
    canTouch(row, col) /\ handleCellPress(row, col)

\* A long-press of a cell the user can touch.
LongPressStep ==
  \E row \in DOMAIN grid, col \in DOMAIN grid[0] :
    canTouch(row, col) /\ handleCellLongPress(row, col)

\* The user's events on the board and its buttons.
BoardEvent ==
  \/ PressStep
  \/ LongPressStep
  \/ handleReset
  \/ handleVictoryClose

\* The settings Modal is opened, closed, or a preset is selected in it.
SettingsEvent ==
  \/ \E k \in DOMAIN DIFFICULTIES : handleDifficultySelect(DIFFICULTIES[k])
  \/ handleSettingsPress
  \/ handleSettingsClose

\* An awaited fetch settles and handleCellPress resumes.
ResponseEvent ==
  \/ \E i \in 1..Len(pending) : StartGameResponse(i)
  \/ \E i \in 1..Len(pending) : RevealResponse(i)
  \/ \E i \in 1..Len(pending) : FetchFails(i)

\* The user's events are handled with the effects of the last render run;
\* a response can arrive before them.
Next ==
  /\ \/ /\ ~EffectsDue
        /\ BoardEvent \/ SettingsEvent
        /\ UNCHANGED effectDifficulty
     \/ /\ ResponseEvent \/ timerTick
        /\ UNCHANGED effectDifficulty
     \/ difficultyEffects
  /\ UNCHANGED <<scenario, evars, svars, events>>

Spec == Init /\ [][Next]_vars

(* ------------------------ presses during a request -------------------- *)
(* The session with a cell pressed before the mines are placed while       *)
(* earlier requests are still awaited.                                     *)

\* handleCellPress before the mines are placed, while requests of earlier
\* presses are still awaited: one more /start-game request is sent.
CellPressFirstInFlight(row, col) ==
  /\ ~(grid[row][col].revealed /\ grid[row][col].adjacentMines > 0)
  /\ ~(~grid[row][col].revealed /\ grid[row][col].flagged)
  /\ ~minesPlaced
  /\ Len(pending) >= MaxPending
  /\ Len(pending) < MaxInFlight
  /\ pending' = Append(pending,
       [ep |-> "start-game",
        body |-> [rows |-> difficulty.rows, cols |-> difficulty.cols,
                  mines |-> difficulty.mines,
                  firstClickRow |-> row, firstClickCol |-> col],
        newGrid |-> deepCopy(grid)])
  /\ UNCHANGED <<settingsVisible, difficulty, grid, minesPlaced, timerActive,
                 victoryVisible, flagCount,
                 renderedGrid>>

\* A press made before the mines are placed while a request is in flight.
InFlightEvent ==
  \E row \in DOMAIN grid, col \in DOMAIN grid[0] :
    canTouch(row, col) /\ CellPressFirstInFlight(row, col)

\* The session with presses made while a request is in flight, in runs of
\* at most MaxEvents events of the user; events counts them.
NextInFlight ==
  /\ \/ /\ ~EffectsDue
        /\ events < MaxEvents
        /\ \/ BoardEvent
           \/ InFlightEvent
           \/ SettingsEvent
        /\ events' = events + 1
        /\ UNCHANGED effectDifficulty
     \/ /\ ResponseEvent \/ timerTick
        /\ UNCHANGED <<effectDifficulty, events>>
     \/ difficultyEffects /\ UNCHANGED events
  /\ UNCHANGED <<scenario, evars, svars>>

SpecInFlight == Init /\ [][NextInFlight]_vars

\* Both sides of the /reveal boundary: a run of the service under its
\* caller, or a run of the client session.
InitBoundary == InitService \/ Init

NextBoundary ==
  \/ scenario = "service" /\ NextService
  \/ scenario = "session" /\ Next

SpecBoundary == InitBoundary /\ [][NextBoundary]_vars

(* ------------------------- properties of the engine -------------------- *)

Cells(g) == {p \in (DOMAIN g) \X (DOMAIN g[0]) : TRUE}

Mined(g) == {p \in Cells(g) : g[p[1]][p[2]].hasMine}

Revealed(g) == {p \in Cells(g) : g[p[1]][p[2]].revealed}

\* The in-bounds cells of the Moore neighbourhood of p, p itself excluded.
Moore(g, p) ==
  {q \in Cells(g) :
     /\ q # p
     /\ q[1] - p[1] \in {-1, 0, 1}
     /\ q[2] - p[2] \in {-1, 0, 1}}

\* Every non-mined cell carries the number of its mined neighbours.
AdjacencyCorrect(g) ==
  \A p \in Cells(g) :
    ~g[p[1]][p[2]].hasMine =>
      g[p[1]][p[2]].adjacentMines = Cardinality(Moore(g, p) \cap Mined(g))

\* The safe zone of the last placeMines call: the single safe cell for the
\* backend, the clipped 3x3 block around the excluded cell for the client.
SafeZone ==
  IF ecall.op = "placeMines"
  THEN {p \in Cells(egrid) : p = <<ecall.safeRow, ecall.safeCol>>}
  ELSE {p \in Cells(egrid) :
          /\ p[1] - ecall.excludeRow \in {-1, 0, 1}
          /\ p[2] - ecall.excludeCol \in {-1, 0, 1}}

\* C1: after placeMines on a board without mines, with mineCount at most the
\* number of cells outside the safe zone, exactly mineCount cells are mined
\* and none of them lies in the safe zone, whatever the random draws were
\* (backend: after the call; client: once the rejection loop has returned).
C1_PlaceMinesExact ==
  (/\ ecall.op \in {"placeMines", "placeMinesClient"}
   /\ placementReturned
   /\ ecall.mineCount <= Cardinality(Cells(egrid) \ SafeZone))
  => /\ Cardinality(Mined(egrid)) = ecall.mineCount
     /\ Mined(egrid) \cap SafeZone = {}

\* A backend placement of two mines on a board of at least four cells whose
\* safe cell lies on the board.
C1_Witness ==
  /\ ecall.op = "placeMines"
  /\ ecall.mineCount = 2
  /\ ecall.safeRow >= 0
  /\ Cardinality(Cells(egrid)) >= 4
  /\ Cardinality(Mined(egrid)) = 2

\* C2: after countAdjacentMines (either variant) every non-mined cell's
\* adjacentMines is the number of in-bounds Moore neighbours that are mined,
\* a number in 0..8.
C2_AdjacencyExact ==
  ecall.op \in {"countAdjacentMines", "countAdjacentMinesClient"}
  => /\ AdjacencyCorrect(egrid)
     /\ \A p \in Cells(egrid) :
          ~egrid[p[1]][p[2]].hasMine => egrid[p[1]][p[2]].adjacentMines \in 0..8

\* A counted board with a non-mined cell that has three mined neighbours,
\* one of them diagonal.
C2_Witness ==
  /\ ecall.op = "countAdjacentMines"
  /\ \E p \in Cells(egrid) :
       /\ ~egrid[p[1]][p[2]].hasMine
       /\ egrid[p[1]][p[2]].adjacentMines = 3
       /\ \E q \in Moore(egrid, p) \cap Mined(egrid) : q[1] # p[1] /\ q[2] # p[2]

\* C3: checkWin returns true exactly when every non-mined cell is revealed;
\* whether mined cells are revealed plays no part, and a board of mines only
\* is won.
C3_CheckWinIff ==
  ecall.op = "checkWin"
  => (ecall.result = (Cells(egrid) \ Mined(egrid) \subseteq Revealed(egrid)))

\* checkWin answered true on a board with a hidden mine and a revealed
\* non-mined cell.
C3_Witness ==
  /\ ecall.op = "checkWin"
  /\ ecall.result = TRUE
  /\ Mined(egrid) \ Revealed(egrid) # {}
  /\ Cells(egrid) \ Mined(egrid) # {}

\* The step is a revealCellsDFS call (either variant) with its seed in ecall'.
IsRevealStep == ecall'.op = "revealCellsDFS" /\ ereveals' = ereveals + 1

SeedOnBoard == <<ecall'.row, ecall'.col>> \in Cells(egrid)

\* C4: on a board with correct adjacency counts, revealCellsDFS seeded on a
\* non-mined cell with count 0 reveals no mined cell, and every cell it
\* reveals other than the seed is the neighbour of a revealed non-mined cell
\* with count 0: a cell with a count above 0 is revealed but not expanded.
C4_FloodNeverRevealsMine ==
  [][(/\ IsRevealStep
      /\ SeedOnBoard
      /\ AdjacencyCorrect(egrid)
      /\ ~egrid[ecall'.row][ecall'.col].hasMine
      /\ egrid[ecall'.row][ecall'.col].adjacentMines = 0)
     => \A p \in Revealed(egrid') \ Revealed(egrid) :
          /\ ~egrid[p[1]][p[2]].hasMine
          /\ \/ p = <<ecall'.row, ecall'.col>>
             \/ \E q \in Moore(egrid, p) \cap Revealed(egrid') :
                  /\ ~egrid[q[1]][q[2]].hasMine
                  /\ egrid[q[1]][q[2]].adjacentMines = 0]_evars

\* After the first reveal on a correctly counted board: the seed is a
\* revealed zero cell, a numbered cell is revealed, and a mine and a
\* non-mined cell behind the numbered border stay hidden.
C4_Witness ==
  /\ ecall.op = "revealCellsDFS"
  /\ ereveals = 1
  /\ <<ecall.row, ecall.col>> \in Cells(egrid)
  /\ AdjacencyCorrect(egrid)
  /\ ~egrid[ecall.row][ecall.col].hasMine
  /\ egrid[ecall.row][ecall.col].adjacentMines = 0
  /\ egrid[ecall.row][ecall.col].revealed
  /\ \E p \in Revealed(egrid) : egrid[p[1]][p[2]].adjacentMines > 0
  /\ Mined(egrid) # {}
  /\ Mined(egrid) \cap Revealed(egrid) = {}
  /\ (Cells(egrid) \ Mined(egrid)) \ Revealed(egrid) # {}

\* The least set that holds the seed and, with every non-mined member of
\* count 0, its neighbours that were hidden before the call.
RECURSIVE FloodClosure(_, _)
FloodClosure(g, S) ==
  LET T == S \cup UNION {Moore(g, p) \ Revealed(g) :
                          p \in {m \in S : /\ ~g[m[1]][m[2]].hasMine
                                           /\ g[m[1]][m[2]].adjacentMines = 0}}
  IN  IF T = S THEN S ELSE FloodClosure(g, T)

\* C5: for every board and every hidden seed on it, the cells revealCellsDFS
\* newly reveals are exactly the closure above; a seed that is mined or has
\* a count other than 0 reveals exactly itself.
C5_FloodEqualsReference ==
  [][(/\ IsRevealStep
      /\ SeedOnBoard
      /\ ~egrid[ecall'.row][ecall'.col].revealed)
     => /\ Revealed(egrid') \ Revealed(egrid)
             = FloodClosure(egrid, {<<ecall'.row, ecall'.col>>})
        /\ (egrid[ecall'.row][ecall'.col].hasMine
               \/ egrid[ecall'.row][ecall'.col].adjacentMines # 0)
           => Revealed(egrid') \ Revealed(egrid) = {<<ecall'.row, ecall'.col>>}]_evars

\* Two calls, each on a hidden seed that does not expand: the revealed cells
\* are the last seed, a mined cell, and one other cell that the first call
\* revealed, so the last call revealed its seed alone on a board that
\* already had a revealed cell.
C5_Witness ==
  /\ ecall.op = "revealCellsDFS"
  /\ ereveals = 2
  /\ <<ecall.row, ecall.col>> \in Mined(egrid)
  /\ Cardinality(Revealed(egrid)) = 2
  /\ <<ecall.row, ecall.col>> \in Revealed(egrid)
  /\ \A p \in Revealed(egrid) :
       egrid[p[1]][p[2]].hasMine \/ egrid[p[1]][p[2]].adjacentMines # 0
  /\ \E p \in Cells(egrid) \ Revealed(egrid) : egrid[p[1]][p[2]].adjacentMines = 0

(* ------------------------ properties of the service -------------------- *)

\* The cell a request body of /reveal targets, in the grid it carries.
target(body) == body.grid[body.row][body.col]

\* C6: for a valid body, the grid /start-game answers with has exactly
\* body.mines mined cells, a correct count on every non-mined cell, the
\* first-click cell non-mined and revealed, and no mined cell revealed.
C6_StartGameGrid ==
  sbody.ep = "start-game" =>
    LET g == objs[sres.grid]
        b == sbody.body
    IN  /\ sres.status = 200
        /\ Cells(g) = (0..(b.rows - 1)) \X (0..(b.cols - 1))
        /\ Cardinality(Mined(g)) = b.mines
        /\ AdjacencyCorrect(g)
        /\ ~g[b.firstClickRow][b.firstClickCol].hasMine
        /\ g[b.firstClickRow][b.firstClickCol].revealed
        /\ Mined(g) \cap Revealed(g) = {}

\* /start-game answered with two mines placed, a first click that flooded
\* to three cells or more, and a non-mined cell still hidden.
C6_Witness ==
  /\ sbody.ep = "start-game"
  /\ sbody.body.mines = 2
  /\ Cardinality(Revealed(objs[sres.grid])) >= 3
  /\ (Cells(objs[sres.grid]) \ Revealed(objs[sres.grid])) \ Mined(objs[sres.grid]) # {}

\* C22: on a board asked for with 0 mines, the grid /start-game answers
\* with for any first click on the board has every cell revealed, every
\* adjacentMines 0, and checkWin true.
C22_NoMinesRevealsAll ==
  (sbody.ep = "start-game" /\ sbody.body.mines = 0) =>
    LET g == objs[sres.grid]
    IN  /\ sres.status = 200
        /\ Revealed(g) = (0..(sbody.body.rows - 1)) \X (0..(sbody.body.cols - 1))
        /\ \A p \in Cells(g) : g[p[1]][p[2]].adjacentMines = 0
        /\ checkWin(g)

\* /start-game answered for a board of two rows and four cells or more
\* with 0 mines, the first click away from the first row and column.
C22_Witness ==
  /\ sbody.ep = "start-game"
  /\ sbody.body.mines = 0
  /\ sbody.body.rows >= 2 /\ sbody.body.cols >= 2
  /\ sbody.body.firstClickRow > 0 /\ sbody.body.firstClickCol > 0
  /\ Cardinality(Revealed(objs[sres.grid])) >= 4

\* The server half of C7: /reveal on a target that is already revealed or
\* flagged answers with a grid equal to the one sent, in every field of
\* every cell.
RevealNoOp ==
  (/\ sbody.ep = "reveal"
   /\ target(sbody.body).revealed \/ target(sbody.body).flagged)
  => /\ sres.status = 200
     /\ objs[sres.grid] = sbody.body.grid

\* The client half of C7: a press on a flagged, hidden cell changes no cell
\* and no session field.
FlagGate ==
  scenario = "session" =>
    \A row \in DOMAIN grid, col \in DOMAIN grid[0] :
      (/\ grid[row][col].flagged /\ ~grid[row][col].revealed
       /\ canTouch(row, col) /\ handleCellPress(row, col))
      => UNCHANGED cvars

\* C7: /reveal on a revealed or flagged target returns a grid equal to its
\* input, and a client press on a flagged hidden cell changes no cell and no
\* session field (no mine placement, no request, no timer change).
C7_RevealedOrFlaggedIsNoOp == []RevealNoOp /\ [][FlagGate]_vars

\* /reveal was called on a hidden flagged cell that is not mined and has
\* count 0, in a grid with hidden neighbours to flood to, and answered with
\* the grid it was sent.
C7_Witness ==
  /\ sbody.ep = "reveal"
  /\ target(sbody.body).flagged
  /\ ~target(sbody.body).revealed
  /\ ~target(sbody.body).hasMine
  /\ target(sbody.body).adjacentMines = 0
  /\ \E q \in Moore(sbody.body.grid, <<sbody.body.row, sbody.body.col>>) :
       ~sbody.body.grid[q[1]][q[2]].revealed
  /\ objs[sres.grid] = sbody.body.grid

\* C8: after any /reveal call the grid object the caller supplied holds the
\* field values it was sent with; what the call revealed is in the returned
\* grid only.
C8_RevealLeavesInput ==
  sbody.ep = "reveal" =>
    /\ objs[1] = sbody.body.grid
    /\ Revealed(objs[sres.grid]) # Revealed(sbody.body.grid) => sres.grid # 1

\* /reveal flooded: the grid it returned has revealed cells the grid it was
\* sent has not.
C8_Witness ==
  /\ sbody.ep = "reveal"
  /\ sres.status = 200
  /\ Cardinality(Revealed(objs[sres.grid]) \ Revealed(sbody.body.grid)) >= 2
  /\ objs[1] = sbody.body.grid

(* ------------------------ properties of the session -------------------- *)

\* The session is Lost: a mined cell has been revealed.
Lost == Mined(grid) \cap Revealed(grid) # {}

\* The session is Won: every non-mined cell is revealed and the victory is
\* declared.
Won == checkWin(grid) /\ victoryVisible

\* C9: once the session is Won or Lost, no cell press changes the grid or
\* the outcome; in particular a Lost session does not become Won.
C9_TerminalStaysTerminal ==
  [][((Lost \/ Won) /\ PressStep)
     => /\ grid' = grid
        /\ Lost' = Lost
        /\ Won' = Won]_cvars

\* C10: whenever a press reveals a mined cell, directly or through chording,
\* timerActive is false in the resulting state, and so it is whenever a
\* press results in a win.
C10_TimerStopsOnMineOrWin ==
  [][PressStep
     => /\ (Mined(grid') \cap Revealed(grid')) \ Revealed(grid) # {} => ~timerActive'
        /\ (grid' # grid /\ checkWin(grid')) => ~timerActive']_cvars

\* A step that carries out a press: the press itself, or the resumption of
\* handleCellPress when the response it awaited arrives.
PressOrResume ==
  \/ PressStep
  \/ \E i \in 1..Len(pending) : StartGameResponse(i)
  \/ \E i \in 1..Len(pending) : RevealResponse(i)

\* C11: whenever a press has revealed cells and no mine, and every non-mined
\* cell of the resulting grid is revealed, the session is Won in the
\* resulting state: the timer is stopped and the victory is shown.
C11_WinCheckedOnResultingGrid ==
  [][(/\ PressOrResume
      /\ Revealed(grid') \ Revealed(grid) # {}
      /\ Mined(grid') \cap Revealed(grid') = {}
      /\ checkWin(grid'))
     => ~timerActive' /\ victoryVisible']_cvars

\* The neighbours of p that are hidden and flagged, and those that are
\* hidden and not flagged.
FlaggedHidden(g, p) ==
  {q \in Moore(g, p) : ~g[q[1]][q[2]].revealed /\ g[q[1]][q[2]].flagged}

UnflaggedHidden(g, p) ==
  {q \in Moore(g, p) : ~g[q[1]][q[2]].revealed /\ ~g[q[1]][q[2]].flagged}

\* C12: a press on a revealed cell with adjacentMines > 0. If its flagged
\* hidden neighbours are as many as its adjacentMines, every neighbour that
\* was hidden and unflagged is revealed afterwards, and with each such
\* neighbour that is not mined and has count 0 the whole flood from it; if
\* the counts differ, no cell and no session field changes.
C12_Chord ==
  [][\A row \in DOMAIN grid, col \in DOMAIN grid[0] :
       (/\ grid[row][col].revealed /\ grid[row][col].adjacentMines > 0
        /\ canTouch(row, col) /\ handleCellPress(row, col))
       => IF Cardinality(FlaggedHidden(grid, <<row, col>>)) = grid[row][col].adjacentMines
          THEN /\ UnflaggedHidden(grid, <<row, col>>) \subseteq Revealed(grid')
               /\ \A q \in UnflaggedHidden(grid, <<row, col>>) :
                    (~grid[q[1]][q[2]].hasMine /\ grid[q[1]][q[2]].adjacentMines = 0)
                    => FloodClosure(grid, {q}) \subseteq Revealed(grid')
          ELSE UNCHANGED cvars]_cvars

\* A chord has been played out on a board with a diagonal: a revealed
\* numbered cell has as many flagged hidden neighbours as its number, at
\* least two other neighbours, all of them revealed, and no mine is revealed.
C12_Witness ==
  /\ minesPlaced
  /\ Mined(grid) \cap Revealed(grid) = {}
  /\ \E p \in Revealed(grid) :
       /\ grid[p[1]][p[2]].adjacentMines > 0
       /\ Cardinality(FlaggedHidden(grid, p)) = grid[p[1]][p[2]].adjacentMines
       /\ UnflaggedHidden(grid, p) = {}
       /\ Cardinality(Moore(grid, p)) >= 3

C14_NeverRevealedAndFlagged ==
  scenario = "session" =>
    \A p \in Cells(grid) : ~(grid[p[1]][p[2]].revealed /\ grid[p[1]][p[2]].flagged)

(* ------------------- properties of the engine, continued --------------- *)

\* The grid g with every flag taken off.
withoutFlags(g) ==
  [r \in DOMAIN g |-> [c \in DOMAIN g[r] |-> [g[r][c] EXCEPT !.flagged = FALSE]]]

\* C15: two grids that differ in flagged values only get the same cells
\* revealed by revealCellsDFS from the same seed, in the backend and in the
\* client, and the flood /reveal ran revealed the flagged cells of its
\* region like the others. The grids compared are the one /reveal was sent,
\* with the flags its caller set, and the same grid without any flag.
C15_FloodIgnoresFlags ==
  sbody.ep = "reveal" =>
    LET g == sbody.body.grid
        row == sbody.body.row
        col == sbody.body.col
    IN  /\ Revealed(revealCellsDFS(g, row, col))
             = Revealed(revealCellsDFS(withoutFlags(g), row, col))
        /\ Revealed(revealCellsDFSClient(g, row, col))
             = Revealed(revealCellsDFSClient(withoutFlags(g), row, col))
        /\ ~nothingToUpdate(target(sbody.body))
           => Revealed(objs[sres.grid]) = Revealed(revealCellsDFS(withoutFlags(g), row, col))

\* /reveal flooded from an unflagged seed over a hidden flagged cell: the
\* cell is revealed in the answer and still carries its flag.
C15_Witness ==
  /\ sbody.ep = "reveal"
  /\ ~target(sbody.body).flagged
  /\ \E p \in Cells(sbody.body.grid) :
       /\ p # <<sbody.body.row, sbody.body.col>>
       /\ sbody.body.grid[p[1]][p[2]].flagged
       /\ ~sbody.body.grid[p[1]][p[2]].revealed
       /\ objs[sres.grid][p[1]][p[2]].revealed
       /\ objs[sres.grid][p[1]][p[2]].flagged

\* C16: after a call of revealCellsDFS, a second call with the same seed on
\* the grid the first produced changes no cell, in the backend and in the
\* client.
C16_FloodIdempotent ==
  ecall.op = "revealCellsDFS" =>
    /\ revealCellsDFS(egrid, ecall.row, ecall.col) = egrid
    /\ revealCellsDFSClient(egrid, ecall.row, ecall.col) = egrid

\* The second call in a row was made, from a seed on the board that is not
\* mined and has count 0, on a board with mines: the flood from the seed
\* stands revealed and a non-mined cell outside it is still hidden.
C16_Witness ==
  /\ ecall.op = "revealCellsDFS"
  /\ ereveals = 2
  /\ <<ecall.row, ecall.col>> \in Revealed(egrid)
  /\ expands(egrid[ecall.row][ecall.col])
  /\ Cardinality(Revealed(egrid)) >= 3
  /\ Mined(egrid) # {}
  /\ (Cells(egrid) \ Revealed(egrid)) \ Mined(egrid) # {}

\* C17: after a run of countAdjacentMines, a second run on the same mine
\* placement leaves every field of every cell as the first run left it, for
\* the backend (mined cells untouched) and for the client (mined cells -1).
C17_CountIdempotent ==
  /\ ecall.op = "countAdjacentMines" => countAdjacentMines(egrid) = egrid
  /\ ecall.op = "countAdjacentMinesClient" => countAdjacentMinesClient(egrid) = egrid

\* countAdjacentMines of the backend has run on a board with mines where
\* some cell counts two mined neighbours and the mined cells keep count 0.
C17_Witness ==
  /\ ecall.op = "countAdjacentMines"
  /\ \E p \in Cells(egrid) : egrid[p[1]][p[2]].adjacentMines = 2
  /\ \A p \in Mined(egrid) : egrid[p[1]][p[2]].adjacentMines = 0

(* ------------------------- properties of the flood --------------------- *)

\* A call of revealCellsDFS is running: its stack is not empty.
FloodRunning == Len(ecall.stack) > 0

\* A call of revealCellsDFS has returned.
FloodReturned == ecall.op # "none" /\ Len(ecall.stack) = 0

\* The loop run step by step returns the grid the function returns.
FloodStepsAgree ==
  FloodReturned =>
    egrid = IF ecall.op = "revealCellsDFS"
            THEN revealCellsDFS(ecall.start, ecall.row, ecall.col)
            ELSE revealCellsDFSClient(ecall.start, ecall.row, ecall.col)

\* During a traversal every cell is marked at most once, and only cells of
\* the board that were hidden; the pops stay within one for the seed and
\* eight for every cell of the board.
FloodMarksOnce ==
  ecall.op # "none" =>
    /\ \A i, j \in 1..Len(ecall.marks) : ecall.marks[i] = ecall.marks[j] => i = j
    /\ \A i \in 1..Len(ecall.marks) :
         ecall.marks[i] \in Cells(egrid) \ Revealed(ecall.start)
    /\ ecall.pops + Len(ecall.stack) <= 1 + 8 * Cardinality(Cells(egrid))

\* C18: revealCellsDFS terminates for every board and every seed, on the
\* board or off it: each cell is marked revealed and visited at most once
\* during a traversal, and a running traversal leads to an empty stack.
C18_FloodTerminates ==
  []FloodMarksOnce /\ (FloodRunning ~> FloodReturned)

\* A second traversal has returned after flooding: it marked three cells or
\* more, on a grid where the first call had revealed cells already, and
\* popped coordinates it had to skip.
C18_Witness ==
  /\ FloodReturned
  /\ ereveals = 2
  /\ Revealed(ecall.start) # {}
  /\ Len(ecall.marks) >= 3
  /\ ecall.pops >= 9

(* ------------------- properties of placeMines, continued --------------- *)

\* The cells placeMines of the backend may mine in its last call, and those
\* the client's loop may still mine.
Eligible ==
  Len(buildPositions(length(egrid), length(egrid[0]), ecall.safeRow, ecall.safeCol, 0, 0))

StillAccepted ==
  {p \in Cells(egrid) : acceptsDraw(egrid, ecall.excludeRow, ecall.excludeCol, p[1], p[2])}

\* C19: placeMines called with a mineCount above the number of eligible
\* cells signals a failure and never loops forever: the backend's call does
\* not return as a completed placement, and the client's loop is never left
\* wanting a mine with no cell it would accept.
C19_OverConstrainedFails ==
  /\ ecall.op = "placeMines" => ~(ecall.mineCount > Eligible)
  /\ ecall.op = "placeMinesClient" =>
       ~(ecall.placed < ecall.mineCount /\ StillAccepted = {})

(* -------------------- properties of the session, continued ------------- *)

\* C23: within a session a revealed cell stays revealed: every step other
\* than handleReset and the effects of a change of difficulty, the arrival
\* of a response included, leaves every revealed cell of the grid revealed.
C23_RevealedStaysRevealed ==
  [][handleReset \/ difficultyEffects
       \/ Revealed(grid) \subseteq Revealed(grid')]_cvars

\* Some cell's hasMine differs between the two grids, or their dimensions do.
MinesDiffer(g, h) ==
  \/ DOMAIN g # DOMAIN h
  \/ DOMAIN g[0] # DOMAIN h[0]
  \/ \E p \in Cells(g) : g[p[1]][p[2]].hasMine # h[p[1]][p[2]].hasMine

\* C24: once a /start-game response has set the grid (minesPlaced is
\* true), no step other than handleReset and the effects of a change of
\* difficulty changes any cell's hasMine, also when cells were pressed while
\* the first request was in flight.
C24_MinesPlacedOnce ==
  [][(minesPlaced /\ ~handleReset /\ ~difficultyEffects)
       => ~MinesDiffer(grid, grid')]_cvars

\* The session is NotStarted: the grid of the preset with every cell hidden
\* and no mine, no mines placed, the timer stopped, the flag counter at the
\* preset's mine count.
NotStarted ==
  /\ grid = createEmptyGrid(difficulty.rows, difficulty.cols)
  /\ ~minesPlaced
  /\ ~timerActive
  /\ flagCount = difficulty.mines

\* In a NotStarted session the i-th awaited request can only have been sent
\* before the last reset or change of difficulty: a /reveal request (sent
\* with mines placed), or a /start-game request for another preset.
SentBeforeReset(i) ==
  \/ pending[i].ep = "reveal"
  \/ /\ pending[i].ep = "start-game"
     /\ <<pending[i].body.rows, pending[i].body.cols, pending[i].body.mines>>
          # <<difficulty.rows, difficulty.cols, difficulty.mines>>

\* C25: in a NotStarted session, the arrival of the response to a request
\* sent before the reset or the change of difficulty leaves the session
\* NotStarted.
C25_StaleResponseIgnored ==
  [][\A i \in 1..Len(pending) :
       (/\ NotStarted
        /\ SentBeforeReset(i)
        /\ StartGameResponse(i) \/ RevealResponse(i))
       => NotStarted']_cvars

\* The cells of g whose flagged field is true.
Flagged(g) == {p \in Cells(g) : g[p[1]][p[2]].flagged}

\* C26: in every state of the session, once the effects of the mount or of
\* the last change of difficulty have run, the flag counter is the preset's
\* mine count minus the number of flagged cells of the grid.
C26_FlagCounter ==
  ~EffectsDue => flagCount = difficulty.mines - Cardinality(Flagged(grid))

\* The session is InProgress: mines are placed, no mined cell is revealed
\* and some non-mined cell is still hidden.
InProgress ==
  /\ minesPlaced
  /\ Mined(grid) \cap Revealed(grid) = {}
  /\ ~checkWin(grid)

\* C27: no step from an InProgress session with the timer running to an
\* InProgress session whose grid is not about to be cleared by the effects
\* of a change of difficulty stops the timer; selecting the preset that is
\* already selected is such a step.
C27_TimerRunsInProgress ==
  [][(InProgress /\ timerActive /\ InProgress' /\ ~EffectsDue')
       => timerActive']_cvars

\* C28: in every grid of the session every revealed cell that is not mined
\* and has count 0 has all its in-bounds neighbours revealed.
C28_ZeroCellsFlooded ==
  \A p \in Cells(grid) :
    (/\ grid[p[1]][p[2]].revealed
     /\ ~grid[p[1]][p[2]].hasMine
     /\ grid[p[1]][p[2]].adjacentMines = 0)
    => Moore(grid, p) \subseteq Revealed(grid)

\* Mines are placed, a non-mined cell with count 0 and two neighbours or
\* more is revealed, and one of its neighbours carries a flag.
C28_Witness ==
  /\ minesPlaced
  /\ \E p \in Revealed(grid) \ Mined(grid) :
       /\ grid[p[1]][p[2]].adjacentMines = 0
       /\ Cardinality(Moore(grid, p)) >= 2
       /\ Moore(grid, p) \cap Flagged(grid) # {}

\* The two grids have the same dimensions and every cell the same hasMine
\* and adjacentMines.
SameBoard(g, h) ==
  /\ DOMAIN g = DOMAIN h
  /\ \A r \in DOMAIN g : DOMAIN g[r] = DOMAIN h[r]
  /\ \A p \in Cells(g) :
       /\ h[p[1]][p[2]].hasMine = g[p[1]][p[2]].hasMine
       /\ h[p[1]][p[2]].adjacentMines = g[p[1]][p[2]].adjacentMines

\* h is g with some hidden cells revealed and nothing else changed.
OnlyReveals(g, h) ==
  /\ SameBoard(g, h)
  /\ \A p \in Cells(g) : h[p[1]][p[2]].flagged = g[p[1]][p[2]].flagged
  /\ Revealed(g) \subseteq Revealed(h)

\* C29: a press (chord, mine press, numbered press) changes only revealed
\* fields, from false to true; a flag toggle changes no hasMine, no
\* adjacentMines and no dimension; and revealCellsDFS of the backend and of
\* the client, from any cell of any grid of the session, changes only
\* revealed fields, from false to true, and leaves every flag as it was.
C29_Frame ==
  /\ [][/\ OnlyReveals(grid, grid') \/ ~PressStep
        /\ SameBoard(grid, grid') \/ ~LongPressStep
        /\ \A i \in 1..Len(pending) :
             pending[i].ep = "reveal" =>
               \/ OnlyReveals(pending[i].body.grid, grid')
               \/ ~RevealResponse(i)]_cvars
  /\ [](\A p \in Cells(grid) :
          /\ OnlyReveals(grid, revealCellsDFS(grid, p[1], p[2]))
          /\ OnlyReveals(grid, revealCellsDFSClient(grid, p[1], p[2])))

\* A chord has flooded through a flagged cell: a non-mined cell is revealed
\* and flagged next to a revealed cell with count 0, no request is awaited
\* and four cells or more are revealed.
C29_Witness ==
  /\ minesPlaced
  /\ pending = <<>>
  /\ Cardinality(Revealed(grid)) >= 4
  /\ \E p \in (Revealed(grid) \cap Flagged(grid)) \ Mined(grid) :
       \E q \in Moore(grid, p) \cap Revealed(grid) :
         grid[q[1]][q[2]].adjacentMines = 0 /\ ~grid[q[1]][q[2]].hasMine

\* C30: handleCellLongPress on a hidden cell negates that cell's flagged
\* and nothing else in the grid, and moves flagCount by -1 when flagging
\* and +1 when unflagging; on a revealed cell it changes nothing; applied
\* twice to the same hidden cell it gives back the grid and the counter.
C30_LongPress ==
  \A p \in Cells(grid) :
    LET cell == grid[p[1]][p[2]]
        once == longPress(grid, flagCount, p[1], p[2])
        twice == longPress(once.grid, once.flagCount, p[1], p[2])
    IN  IF cell.revealed
        THEN once.grid = grid /\ once.flagCount = flagCount
        ELSE /\ once.grid[p[1]][p[2]].flagged = ~cell.flagged
             /\ \A q \in Cells(grid) \ {p} : once.grid[q[1]][q[2]] = grid[q[1]][q[2]]
             /\ once.grid[p[1]][p[2]] = [cell EXCEPT !.flagged = ~cell.flagged]
             /\ DOMAIN once.grid = DOMAIN grid
             /\ once.flagCount = flagCount + (IF cell.flagged THEN 1 ELSE -1)
             /\ twice.grid = grid
             /\ twice.flagCount = flagCount

\* A long-press has flagged a hidden cell of a started game: the counter is
\* one below the mine count, a numbered cell is revealed and a hidden cell
\* without a flag remains.
C30_Witness ==
  /\ minesPlaced
  /\ Cardinality(Flagged(grid) \ Revealed(grid)) = 1
  /\ flagCount = difficulty.mines - 1
  /\ \E p \in Revealed(grid) : grid[p[1]][p[2]].adjacentMines > 0
  /\ (Cells(grid) \ Revealed(grid)) \ Flagged(grid) # {}

(* ------------------- properties of requests off the board -------------- *)

\* The request names a cell outside [0,rows) x [0,cols), or a board without
\* rows or without columns.
OffBoardRequest ==
  \/ /\ sbody.ep = "start-game"
     /\ \/ sbody.body.rows <= 0
        \/ sbody.body.cols <= 0
        \/ sbody.body.firstClickRow \notin 0..(sbody.body.rows - 1)
        \/ sbody.body.firstClickCol \notin 0..(sbody.body.cols - 1)
  \/ /\ sbody.ep = "reveal"
     /\ \/ sbody.body.row \notin DOMAIN sbody.body.grid
        \/ sbody.body.col \notin DOMAIN sbody.body.grid[0]

\* C20: a /start-game or /reveal request with a cell off the board, or with
\* a board without rows or columns, is answered with a failure and no grid:
\* no grid is built with mines placed or cells revealed, and the grid a
\* /reveal request carries is left as it was sent.
C20_OffBoardRejected ==
  OffBoardRequest =>
    /\ sres.status # 200
    /\ "grid" \notin DOMAIN sres
    /\ objs = IF sbody.ep = "reveal" THEN <<sbody.body.grid>> ELSE <<>>

(* ---------------------- properties of malformed grids ------------------ *)

\* The grid is empty, or its rows do not all have the length of the first.
Malformed(g) ==
  \/ length(g) = 0
  \/ \E r \in DOMAIN g : DOMAIN g[r] # DOMAIN g[0]

\* C21: a /reveal request whose grid is malformed is answered with a
\* failure and no grid, and no reveal is performed: the heap holds the grid
\* as it was sent and nothing else.
C21_MalformedRejected ==
  (sbody.ep = "reveal" /\ Malformed(sbody.body.grid)) =>
    /\ sres.status # 200
    /\ "grid" \notin DOMAIN sres
    /\ objs = <<sbody.body.grid>>

====
